---- MODULE Spec2Model ----
(***************************************************************************)
(* NetPathMiner: the K-shortest-loopless-path ranker (src/src/PathRanker.cpp) *)
(* as a state machine.  One behaviour is one call of pathranker on one     *)
(* input graph: Seed is the code before the main loop, Pop is the first    *)
(* half of a loop iteration (sort, trim, pop, filter, store), Deviate is   *)
(* one iteration of the deviation for-loop.  The entry points of           *)
(* src/src/pathScope.cpp (samplepaths, scope) and the functions they share *)
(* (st_shortest_path, computePvalue) have a specification each, further    *)
(* down; each keeps the variables of the others at rest.                   *)
(***************************************************************************)
EXTENDS Integers, Sequences, FiniteSets, TLC

\* ---------------------------------------------------------------- bounds
\* rk is drawn from 1..MaxK, minpathsize from 0..MaxMps; an edge is light
\* (weight 1) or heavy (weight MaxWeight).
MaxK == 5
MaxMps == 3
MaxWeight == 2
\* computePvalue on its own: arrays of 1..MaxSamples samples, each from
\* 1..MaxScore, and scores from 0..MaxScore+1.
MaxSamples == 4
MaxScore == 3
\* samplepaths: maximumPathLength, nbSamples and nbWarmingSteps are each at
\* least 1 and add up to MaxSampling at most; one random walk draws at most
\* MaxRejects visited neighbours, and the dead ends of one length are
\* counted up to MaxFailures (nbFailures only weighs on the odds of the
\* Metropolis test, the retries go on beyond).
MaxSampling == 5
MaxRejects == 1
MaxFailures == 1
\* scope: the matrix of sampled scores it is given has ScSamples rows and
\* ScColumns columns; when it samples itself, InternalSamples scores per
\* length stand for the 10000 of line 678.
ScSamples == 3
ScColumns == 3
InternalSamples == 2
\* st_shortestPvalue_path on its own: SppSamples sampled scores per length.
SppSamples == 10

\* ---------------------------------------------------------------- inputs
\* node_list: the vertex names; a vertex handle is the 0-based position.
NodeList == <<"s", "a", "b", "c", "t">>

\* The node lists a call can be given: the full one, and the ones in which
\* the start vertex, the end vertex or both go by another name.
NodeLists ==
  { NodeList,
    [NodeList EXCEPT ![1] = "x"],
    [NodeList EXCEPT ![Len(NodeList)] = "y"],
    [NodeList EXCEPT ![1] = "x", ![Len(NodeList)] = "y"] }

\* The (from, to) columns of the edge lists the inputs are drawn from,
\* 1-based as the caller passes them.
EdgeSlots ==
  { <<1, 2>>, <<1, 4>>, <<2, 3>>, <<2, 5>>, <<3, 4>>, <<4, 2>>, <<4, 5>> }

\* numeric_limits<WeightType>::max(), the "unreachable" score.
DBL_MAX == 1000000

\* numeric_limits<Vertex>::max(), the handle of a vertex that was not found.
NoVertex == 999

\* edge(u,v,g).second = false: the graph has no edge u -> v.  (Not a
\* weight: an edge can weigh 0.)
NoEdge == -1

Vertex == 0 .. (Len(NodeList) - 1)

VARIABLE node_list    \* the names the call was given

\* R_get_st_graph_from, the scan of the names: the last position named nm.
FindVertex(nm) ==
  LET hits == { v \in Vertex : v < Len(node_list) /\ node_list[v + 1] = nm }
  IN  IF hits = {} THEN NoVertex
      ELSE CHOOSE v \in hits : \A u \in hits : u <= v

s == FindVertex("s")
t == FindVertex("t")

\* The weights an edge can have.
Weights == {1, MaxWeight}

\* R_get_st_graph_from, the edge loop: ew gives each slot its weight, or
\* NoEdge for a slot that is not in the edge list.  The graph is kept as
\* the weight of each ordered pair of handles (v_pair is the slot minus 1)
\* that can carry an edge; every other pair has no edge.
BuildGraph(ew) ==
  [ e \in { <<x[1] - 1, x[2] - 1>> : x \in EdgeSlots } |-> ew[<<e[1] + 1, e[2] + 1>>] ]

Graphs == { BuildGraph(ew) : ew \in [EdgeSlots -> {NoEdge} \cup Weights] }

\* ---------------------------------------------------------------- graph
HasEdge(G, u, v) == <<u, v>> \in DOMAIN G /\ G[<<u, v>>] # NoEdge

\* weight[edge(u,v,g).first]
Weight(G, u, v) == G[<<u, v>>]

remove_edge(u, v, G) ==
  IF <<u, v>> \in DOMAIN G THEN [G EXCEPT ![<<u, v>>] = NoEdge] ELSE G

clear_vertex(u, G) ==
  [ e \in DOMAIN G |-> IF e[1] = u \/ e[2] = u THEN NoEdge ELSE G[e] ]

\* double addition next to DBL_MAX: DBL_MAX + w rounds back to DBL_MAX.
Plus(x, w) == IF x = DBL_MAX THEN DBL_MAX ELSE x + w

\* ---------------------------------------------------------------- dijkstra
\* Faulty variant of Relax: rhs is the edge weight alone, distance[u] is
\* not added.
RelaxWeightOnly(G, u, st) ==
  LET upd(v) == HasEdge(G, u, v) /\ st.distance[v] > Weight(G, u, v)
  IN  [ distance    |-> [ v \in Vertex |-> IF upd(v) THEN Weight(G, u, v)
                                           ELSE st.distance[v] ],
        predecessor |-> [ v \in Vertex |-> IF upd(v) THEN u ELSE st.predecessor[v] ] ]

\* One extract-min of u and the relaxation of all its out-edges.
Relax(G, u, st) ==
  LET upd(v) == HasEdge(G, u, v) /\ st.distance[v] > Plus(st.distance[u], Weight(G, u, v))
  IN  [ distance    |-> [ v \in Vertex |-> IF upd(v)
                                           THEN Plus(st.distance[u], Weight(G, u, v))
                                           ELSE st.distance[v] ],
        predecessor |-> [ v \in Vertex |-> IF upd(v) THEN u ELSE st.predecessor[v] ] ]

\* The while loop of dijkstra_algorithm.  minheap.top() is any vertex of
\* least distance: the heap's order among equal keys is not specified, so
\* every such order is an outcome.  Once the least key is DBL_MAX no
\* relaxation can succeed any more and the remaining pops change nothing.
RECURSIVE DijkstraLoop(_, _, _)
DijkstraLoop(G, minheap, st) ==
  IF minheap = {} THEN {st}
  ELSE LET tops == { u \in minheap : \A v \in minheap : st.distance[u] <= st.distance[v] }
       IN  IF \A u \in tops : st.distance[u] = DBL_MAX THEN {st}
           ELSE UNION { DijkstraLoop(G, minheap \ {u}, Relax(G, u, st)) : u \in tops }

dijkstra_algorithm(G, src) ==
  DijkstraLoop(G, Vertex,
               [ distance    |-> [ v \in Vertex |-> IF v = src THEN 0 ELSE DBL_MAX ],
                 predecessor |-> [ v \in Vertex |-> 0 ] ])

\* for(Vertex v = t; v != s; v = predecessor[v]) push_front(v); push_front(s)
RECURSIVE WalkBack(_, _, _)
WalkBack(predecessor, src, v) ==
  IF v = src THEN <<src>>
  ELSE Append(WalkBack(predecessor, src, predecessor[v]), v)

\* The set of values st_shortest_path can return.
st_shortest_path(src, dst, G) ==
  { [ sequence  |-> IF o.distance[dst] # DBL_MAX
                    THEN WalkBack(o.predecessor, src, dst) ELSE <<>>,
      score     |-> o.distance[dst],
      deviation |-> 0 ] : o \in dijkstra_algorithm(G, src) }

\* ---------------------------------------------------------------- ranker
VARIABLES
  g,                  \* the graph built from the inputs
  K,                  \* (unsigned) rk
  mps,                \* (unsigned) minpathsize
  candidates,         \* deque of st_path_with_deviation
  result,             \* deque of st_path_with_deviation
  all_paths,          \* the output list of length K; NULL where nothing was set
  k, rsize,           \* pops so far, paths emitted so far
  p,                  \* the path popped in this iteration
  g_copy,             \* the graph copy the deviation search edits
  prefix, accumulated_score,
  i,                  \* index of the deviation for-loop
  pc                  \* "start", "loop", "dev", "done"

\* The other entry points of the package (scope, samplepaths) and the
\* functions they share: one variable for the locals of each.
VARIABLES
  sp,                 \* a call of st_shortest_path on its own
  pv,                 \* computePvalue
  smp,                \* samplepaths and computeRandomScores
  sc,                 \* scope
  spp                 \* a call of st_shortestPvalue_path on its own

vars == << node_list, g, K, mps, candidates, result, all_paths, k, rsize, p,
           g_copy, prefix, accumulated_score, i, pc, sp, pv, smp, sc, spp >>

\* What a call of pathranker leaves alone.
notRanker == << node_list, sp, pv, smp, sc, spp >>

\* The locals of a function that is not running.
Idle == [ pc |-> "idle" ]

NULL == [ genes |-> <<>>, weights |-> <<>>, distance |-> 0, set |-> FALSE ]

\* seq1[0]...seq1[i] and seq2[0]...seq2[i] equal?  (0-based i, as in the code)
RECURSIVE EqualFrom(_, _, _, _)
EqualFrom(seq1, seq2, j, last) ==
  IF j > last THEN TRUE
  ELSE IF seq1[j + 1] # seq2[j + 1] THEN FALSE
  ELSE EqualFrom(seq1, seq2, j + 1, last)

equal_first_i_nodes(seq1, seq2, last) == EqualFrom(seq1, seq2, 0, last)

\* inline bool compare(x, y)
compare(x, y) == x.score < y.score

\* sort(candidates.begin(), candidates.end(), compare): std::sort is not
\* stable, so every arrangement in which no element precedes a smaller one
\* is an outcome.  idx is the set of positions not yet placed.
RECURSIVE SortFrom(_, _)
SortFrom(seq, idx) ==
  IF idx = {} THEN { <<>> }
  ELSE LET firsts == { a \in idx : \A b \in idx : ~compare(seq[b], seq[a]) }
       IN  UNION { { <<seq[a]>> \o rest : rest \in SortFrom(seq, idx \ {a}) } : a \in firsts }

sort(seq) == SortFrom(seq, DOMAIN seq)

\* if(candidates.size() > K-rsize+1) candidates.resize(K-rsize+1)
Trim(seq) ==
  IF Len(seq) > K - rsize + 1 THEN SubSeq(seq, 1, K - rsize + 1) ELSE seq

\* Faulty variant of LoopGuard: the guard off by one.
LoopGuardOffByOne == rsize <= K

\* while (rsize < K)
LoopGuard == rsize < K

\* Faulty variant of AcceptanceFilter: the score test not strict.
AcceptanceFilterNotStrict(pp) ==
  /\ Len(pp.sequence) > mps
  /\ pp.score >= 2 * Weight(g, pp.sequence[1], pp.sequence[2])

\* Faulty variant of AcceptanceFilter: the length test not strict.
AcceptanceFilterLengthGE(pp) ==
  /\ Len(pp.sequence) >= mps
  /\ pp.score > 2 * Weight(g, pp.sequence[1], pp.sequence[2])

\* if (p.sequence.size() > mps && p.score > 2*fw), fw the weight of the
\* edge p.sequence[0] -> p.sequence[1]
AcceptanceFilter(pp) ==
  /\ Len(pp.sequence) > mps
  /\ pp.score > 2 * Weight(g, pp.sequence[1], pp.sequence[2])

\* Faulty variant of NextRsize: rsize counts every pop.
NextRsizeEveryPop(accepted) == rsize + 1

\* rsize = rsize + 1 inside the if of the filter, nothing otherwise.
NextRsize(accepted) == IF accepted THEN rsize + 1 ELSE rsize

\* store_path_R: st_path is a reference, so the two pops change the
\* caller's deque; value is what is returned.
store_path_R(st_path, G, p_score) ==
  LET inner == SubSeq(st_path, 2, Len(st_path) - 1)
  IN  [ st_path |-> inner,
        value   |-> IF inner = <<>> THEN NULL
                    ELSE [ genes    |-> inner,
                           weights  |-> [ n \in 1 .. (Len(inner) - 1) |->
                                            Weight(G, inner[n], inner[n + 1]) ],
                           distance |-> p_score,
                           set      |-> TRUE ] ]

\* SET_VECTOR_ELT(vec, idx, val) with a 0-based idx.  A write past the end
\* of the vector lands outside it: the domain grows, so that it shows.
SET_VECTOR_ELT(vec, idx, val) ==
  [ n \in (DOMAIN vec) \cup {idx + 1} |-> IF n = idx + 1 THEN val ELSE vec[n] ]

EmptyPath == [ sequence |-> <<>>, score |-> 0, deviation |-> 0 ]

\* A call of pathranker.  A node list without start or end vertex is
\* turned down before rk and minpathsize matter: such a list comes with one
\* value of each.
Init ==
  /\ node_list \in NodeLists
  /\ g \in Graphs
  /\ K \in 1 .. MaxK
  /\ mps \in 0 .. MaxMps
  /\ node_list # NodeList => (K = 1 /\ mps = 0)
  /\ sp = Idle /\ pv = Idle /\ smp = Idle /\ sc = Idle /\ spp = Idle
  /\ candidates = <<>>
  /\ result = <<>>
  /\ all_paths = [ n \in 1 .. K |-> NULL ]
  /\ k = 0
  /\ rsize = 0
  /\ p = EmptyPath
  /\ g_copy = g
  /\ prefix = <<>>
  /\ accumulated_score = 0
  /\ i = 0
  /\ pc = "start"

\* PathRanker.cpp 193-196: no vertex is named "s" or none is named "t";
\* the call returns R_NilValue.
ReturnNil ==
  /\ pc = "start"
  /\ (s = NoVertex \/ t = NoVertex)
  /\ pc' = "nil"
  /\ UNCHANGED << g, K, mps, candidates, result, all_paths, k, rsize, p,
                  g_copy, prefix, accumulated_score, i >>
  /\ UNCHANGED notRanker

\* PathRanker.cpp 187-222: the graph has its start and end vertex; the
\* pool is seeded with the shortest s-t path.
Seed ==
  /\ pc = "start"
  /\ s # NoVertex /\ t # NoVertex
  /\ \E q \in st_shortest_path(s, t, g) : candidates' = <<q>>
  /\ pc' = "loop"
  /\ UNCHANGED << g, K, mps, result, all_paths, k, rsize, p, g_copy,
                  prefix, accumulated_score, i >>
  /\ UNCHANGED notRanker

\* while (rsize < K) fails: leave the loop.
ExitFull ==
  /\ pc = "loop"
  /\ ~LoopGuard
  /\ pc' = "done"
  /\ UNCHANGED << g, K, mps, candidates, result, all_paths, k, rsize, p,
                  g_copy, prefix, accumulated_score, i >>
  /\ UNCHANGED notRanker

\* if(candidates.empty()) break;
ExitEmpty ==
  /\ pc = "loop"
  /\ LoopGuard
  /\ candidates = <<>>
  /\ pc' = "done"
  /\ UNCHANGED << g, K, mps, candidates, result, all_paths, k, rsize, p,
                  g_copy, prefix, accumulated_score, i >>
  /\ UNCHANGED notRanker

\* Lines 231-243 when the popped score is DBL_MAX: the path is appended to
\* result and the loop is left.
PopSentinel ==
  /\ pc = "loop"
  /\ LoopGuard
  /\ candidates # <<>>
  /\ \E sorted \in sort(candidates) :
       LET pp == Head(Trim(sorted))
       IN  /\ pp.score = DBL_MAX
           /\ candidates' = Tail(Trim(sorted))
           /\ result' = Append(result, pp)
           /\ p' = pp
  /\ pc' = "done"
  /\ UNCHANGED << g, K, mps, all_paths, k, rsize, g_copy, prefix,
                  accumulated_score, i >>
  /\ UNCHANGED notRanker

\* Lines 231-259 otherwise: sort, trim, pop, append to result, filter and
\* store, k = k + 1, reset of prefix and accumulated_score.
Pop ==
  /\ pc = "loop"
  /\ LoopGuard
  /\ candidates # <<>>
  /\ \E sorted \in sort(candidates) :
       LET pp == Head(Trim(sorted))
           st == store_path_R(pp.sequence, g, pp.score)
       IN  /\ pp.score # DBL_MAX
           /\ candidates' = Tail(Trim(sorted))
           /\ result' = Append(result, pp)
           /\ rsize' = NextRsize(AcceptanceFilter(pp))
           /\ IF AcceptanceFilter(pp)
              THEN /\ all_paths' = SET_VECTOR_ELT(all_paths, rsize, st.value)
                   /\ p' = [pp EXCEPT !.sequence = st.st_path]
              ELSE /\ p' = pp
                   /\ UNCHANGED all_paths
  /\ k' = k + 1
  /\ prefix' = <<>>
  /\ accumulated_score' = 0
  /\ i' = 0
  /\ pc' = "dev"
  /\ UNCHANGED << g, K, mps, g_copy >>
  /\ UNCHANGED notRanker

\* Lines 264-275: the copy of g with the edge of every result path that
\* shares the first i+1 vertices with p removed, and the vertices at
\* positions 0..i-1 of p cleared.
RECURSIVE EdgeDeletion(_, _, _)
EdgeDeletion(G, j, pos) ==
  IF j > Len(result) THEN G
  ELSE EdgeDeletion(
         IF equal_first_i_nodes(result[j].sequence, p.sequence, pos)
         THEN remove_edge(result[j].sequence[pos + 1], result[j].sequence[pos + 2], G)
         ELSE G,
         j + 1, pos)

\* Faulty variant of VertexDeletion: the prefix vertices are not cleared.
VertexDeletionSkipped(G, j, pos) == G

RECURSIVE VertexDeletion(_, _, _)
VertexDeletion(G, j, pos) ==
  IF j >= pos THEN G
  ELSE VertexDeletion(clear_vertex(p.sequence[j + 1], G), j + 1, pos)

\* Faulty variant of DeviationGraph: the deletions are made in the copy
\* left by the position before (g_copy = g is missing).
DeviationGraphOnCopy(pos) == VertexDeletion(EdgeDeletion(g_copy, 1, pos), 0, pos)

\* g_copy = g, then the two deletion loops.
DeviationGraph(pos) == VertexDeletion(EdgeDeletion(g, 1, pos), 0, pos)

\* Lines 281-288: the prefix is put in front of q and its score added.
Concatenate(q, pos) ==
  [ sequence  |-> IF q.sequence # <<>> THEN prefix \o q.sequence ELSE q.sequence,
    score     |-> IF q.sequence # <<>> THEN q.score + accumulated_score ELSE q.score,
    deviation |-> pos ]

\* Faulty variant of DevLoopGuard: the loop condition never fails.
DevLoopGuardAlways == TRUE

\* for(unsigned i=0; i < p.sequence.size()-1; ++i): size()-1 is unsigned,
\* so an empty sequence gives a bound no i reaches (and the body would then
\* read p.sequence[i] of an empty deque; TypeOK shows p.sequence is never
\* empty here).
DevLoopGuard == Len(p.sequence) = 0 \/ i < Len(p.sequence) - 1

\* One iteration of the deviation loop, lines 261-293.
Deviate ==
  /\ pc = "dev"
  /\ DevLoopGuard
  /\ Len(p.sequence) >= i + 2
  /\ IF i >= p.deviation
     THEN LET gc == DeviationGraph(i)
          IN  /\ g_copy' = gc
              /\ \E q \in st_shortest_path(p.sequence[i + 1], t, gc) :
                   candidates' = IF q.score # DBL_MAX
                                 THEN Append(candidates, Concatenate(q, i))
                                 ELSE candidates
     ELSE UNCHANGED << g_copy, candidates >>
  /\ prefix' = Append(prefix, p.sequence[i + 1])
  /\ accumulated_score' =
        accumulated_score + Weight(g, p.sequence[i + 1], p.sequence[i + 2])
  /\ i' = i + 1
  /\ UNCHANGED << g, K, mps, result, all_paths, k, rsize, p, pc >>
  /\ UNCHANGED notRanker

\* The for-loop condition fails: back to the head of the while loop.
EndDeviate ==
  /\ pc = "dev"
  /\ ~DevLoopGuard
  /\ pc' = "loop"
  /\ UNCHANGED << g, K, mps, candidates, result, all_paths, k, rsize, p,
                  g_copy, prefix, accumulated_score, i >>
  /\ UNCHANGED notRanker

Next ==
  \/ ReturnNil
  \/ Seed
  \/ ExitFull
  \/ ExitEmpty
  \/ PopSentinel
  \/ Pop
  \/ Deviate
  \/ EndDeviate

Spec == Init /\ [][Next]_vars

TypeOK ==
  /\ pc \in {"start", "loop", "dev", "done", "nil"}
  /\ rsize \in 0 .. K
  /\ k \in Nat
  /\ pc = "dev" => Len(p.sequence) >= 1

\* ------------------------------------------------- st_shortest_path alone
\* The ranker's variables while another entry point runs.
RankerIdle ==
  /\ K = 0 /\ mps = 0
  /\ candidates = <<>> /\ result = <<>> /\ all_paths = <<>>
  /\ k = 0 /\ rsize = 0
  /\ p = EmptyPath
  /\ g_copy = g
  /\ prefix = <<>> /\ accumulated_score = 0 /\ i = 0

rankerVars == << K, mps, candidates, result, all_paths, k, rsize, p, g_copy,
                prefix, accumulated_score, i >>

\* The graphs st_shortest_path is tried on: an edge may also weigh 0.
SpGraphs == { BuildGraph(ew) : ew \in [EdgeSlots -> {NoEdge, 0} \cup Weights] }

\* The end vertices of the calls tried: the end vertex t, as in the
\* ranker, and the inner vertex a, one of the targets of scope.
SpTargets == { FindVertex("t"), FindVertex("a") }

\* A call st_shortest_path(s, t, g) from any vertex to another one.
SpInit ==
  /\ node_list = NodeList
  /\ g \in SpGraphs
  /\ RankerIdle
  /\ pc = "sp"
  /\ \E src \in Vertex : \E dst \in SpTargets \ {src} :
       sp = [ pc |-> "call", s |-> src, t |-> dst, p |-> EmptyPath ]
  /\ pv = Idle /\ smp = Idle /\ sc = Idle /\ spp = Idle

\* Lines 147-169: the call returns p.
SpCall ==
  /\ pc = "sp"
  /\ sp.pc = "call"
  /\ \E q \in st_shortest_path(sp.s, sp.t, g) :
       sp' = [sp EXCEPT !.pc = "returned", !.p = q]
  /\ UNCHANGED << node_list, g, pc, pv, smp, sc, spp >>
  /\ UNCHANGED rankerVars

SpNext == SpCall

SpSpec == SpInit /\ [][SpNext]_vars

\* ---------------------------------------------------------- computePvalue
\* Lines 364-369, one pass of the while loop on the array samples (the row
\* randomScores[length]): c = (a+b)/2, then b = c or a = c.
\* Faulty variant of PvStep: the two branches swapped.
PvStepSwapped(score, samples, st) ==
  LET c == (st.a + st.b) \div 2
  IN  IF samples[c + 1] >= score
      THEN [ a |-> c, b |-> st.b, c |-> c ]
      ELSE [ a |-> st.a, b |-> c, c |-> c ]

PvStep(score, samples, st) ==
  LET c == (st.a + st.b) \div 2
  IN  IF samples[c + 1] >= score
      THEN [ a |-> st.a, b |-> c, c |-> c ]
      ELSE [ a |-> c, b |-> st.b, c |-> c ]

\* A p-value a/nbSamples is kept as numerator and denominator.
Ratio(n, d) == [ num |-> n, den |-> d ]
RatioLess(x, y) == x.num * y.den < y.num * x.den

\* The graph with no edge, for the calls that read no graph.
NoGraph == BuildGraph([ x \in EdgeSlots |-> NoEdge ])

\* The sample arrays of a given size.
SampleArrays(n) == [ 1 .. n -> 1 .. MaxScore ]

\* computePvalue(score, 0, nbSamples, randomScores) with a one-row matrix,
\* called by a caller that keeps the p-values it gets in pvalues, as
\* st_shortestPvalue_path does (line 530).
PvInit ==
  /\ node_list = NodeList
  /\ g = NoGraph
  /\ RankerIdle
  /\ pc = "pv"
  /\ \E n \in 1 .. MaxSamples : \E arr \in SampleArrays(n) :
     \E x \in 0 .. (MaxScore + 1) :
       pv = [ pc |-> "enter", score |-> x, length |-> 0, nbSamples |-> n,
              randomScores |-> << arr >>, a |-> 0, b |-> 0, c |-> 0,
              pvalues |-> <<>> ]
  /\ sp = Idle /\ smp = Idle /\ sc = Idle /\ spp = Idle

\* Lines 358-362: a = 0, b = nbSamples-1, and the early return of 0.
PvEnter ==
  /\ pc = "pv"
  /\ pv.pc = "enter"
  /\ IF pv.randomScores[pv.length + 1][1] >= pv.score
     THEN pv' = [pv EXCEPT !.pc = "returned", !.a = 0, !.b = pv.nbSamples - 1,
                           !.pvalues = Append(@, [ score  |-> pv.score,
                                                   pvalue |-> Ratio(0, pv.nbSamples) ])]
     ELSE pv' = [pv EXCEPT !.pc = "loop", !.a = 0, !.b = pv.nbSamples - 1]
  /\ UNCHANGED << node_list, g, pc, sp, smp, sc, spp >>
  /\ UNCHANGED rankerVars

\* Lines 363-373: one pass of while(true), with its break test.
PvIterate ==
  /\ pc = "pv"
  /\ pv.pc = "loop"
  /\ LET n == PvStep(pv.score, pv.randomScores[pv.length + 1], pv)
     IN  pv' = [pv EXCEPT !.a = n.a, !.b = n.b, !.c = n.c,
                          !.pc = IF n.b = n.a + 1 THEN "break" ELSE "loop"]
  /\ UNCHANGED << node_list, g, pc, sp, smp, sc, spp >>
  /\ UNCHANGED rankerVars

\* Line 374: return a/(double)nbSamples.
PvReturn ==
  /\ pc = "pv"
  /\ pv.pc = "break"
  /\ pv' = [pv EXCEPT !.pc = "returned",
                      !.pvalues = Append(@, [ score  |-> pv.score,
                                              pvalue |-> Ratio(pv.a, pv.nbSamples) ])]
  /\ UNCHANGED << node_list, g, pc, sp, smp, sc, spp >>
  /\ UNCHANGED rankerVars

\* The caller asks for the p-value of one more score on the same array.
PvAgain ==
  /\ pc = "pv"
  /\ pv.pc = "returned"
  /\ Len(pv.pvalues) < 2
  /\ \E x \in 0 .. (MaxScore + 1) :
       pv' = [pv EXCEPT !.pc = "enter", !.score = x]
  /\ UNCHANGED << node_list, g, pc, sp, smp, sc, spp >>
  /\ UNCHANGED rankerVars

PvNext == PvEnter \/ PvIterate \/ PvReturn \/ PvAgain

PvSpec == PvInit /\ [][PvNext]_vars

\* ------------------------------------------------------------ samplepaths
\* The inputs of samplepaths: three vertices, and any of the edges
\* s -> a, a -> s, a -> t.
SmpNodeList == <<"s", "a", "t">>

\* The node lists samplepaths is tried on: the three vertices, or s and a
\* alone.
SmpNodeLists == { SmpNodeList, SubSeq(SmpNodeList, 1, 2) }
SmpSlots == { <<1, 2>>, <<2, 1>>, <<2, 3>> }

\* SCOPE_R_get_st_graph_from, the edge loop, on any edge columns.
BuildGraphOn(slots, ew) ==
  [ e \in { <<x[1] - 1, x[2] - 1>> : x \in slots } |-> ew[<<e[1] + 1, e[2] + 1>>] ]

SmpGraphs ==
  { BuildGraphOn(SmpSlots, ew) : ew \in [SmpSlots -> {NoEdge} \cup Weights] }

\* adjacent_vertices(v, g)
Adjacent(G, v) == { e[2] : e \in { x \in DOMAIN G : x[1] = v /\ G[x] # NoEdge } }

\* A cell of SCORES that nothing was written to.
Unset == -1

\* Lines 238-297, one pass of the body of while(validPath==0) from the
\* vertex v at step i, with indices[0..i] = visited: the outcomes
\* [valid, score] the random draws can give.  A drawn neighbour that was
\* visited adds its weight and is drawn again (rejects counts these draws).
RECURSIVE Walk(_, _, _, _, _, _, _)
Walk(G, v, visited, step, length, score, rejects) ==
  IF step = length \/ Adjacent(G, v) = {}
  THEN { [ valid |-> TRUE, score |-> score ] }
  ELSE IF Adjacent(G, v) \ visited = {}
  THEN { [ valid |-> FALSE, score |-> score ] }
  ELSE UNION {
         IF u \notin visited
         THEN Walk(G, u, visited \cup {u}, step + 1, length,
                   score + Weight(G, v, u), rejects)
         ELSE IF rejects < MaxRejects
         THEN Walk(G, v, visited, step, length, score + Weight(G, v, u), rejects + 1)
         ELSE {} : u \in Adjacent(G, v) }

\* The walk starts at a vertex drawn among all vertices (line 241).
Proposals(G, length) ==
  UNION { Walk(G, v, {v}, 0, length, 0, 0) : v \in 0 .. (Len(node_list) - 1) }

\* Faulty variant of WarmingTime: every iteration counts as a recording one.
WarmingTimeAlwaysZero(iterator, nbWarmingSteps) == 0

\* Lines 230-234: warmingTime is 0 on every nbWarmingSteps-th iteration.
WarmingTime(iterator, nbWarmingSteps) ==
  IF iterator % nbWarmingSteps = 0 THEN 0 ELSE 1

\* randomScores[row][col] = val, with 0-based row and col.  A write past
\* the end of the row lands outside it: the row grows, so that it shows.
WriteScore(rs, row, col, val) ==
  [rs EXCEPT ![row] = [ n \in (DOMAIN rs[row]) \cup {col + 1} |->
                          IF n = col + 1 THEN val ELSE rs[row][n] ]]

\* std::sort of an array of doubles.
RECURSIVE std_sort(_)
std_sort(arr) ==
  IF arr = <<>> THEN <<>>
  ELSE LET m == CHOOSE n \in DOMAIN arr : \A o \in DOMAIN arr : arr[n] <= arr[o]
       IN  <<arr[m]>> \o std_sort(SubSeq(arr, 1, m - 1) \o SubSeq(arr, m + 1, Len(arr)))

\* samplepaths, lines 834-850: SCORES holds maximumPathLength+1 rows of
\* nbSamples cells.  (nbChanges is counted and never read: it is left out.)
SmpInit ==
  /\ node_list \in SmpNodeLists
  /\ g \in SmpGraphs
  /\ \A e \in DOMAIN g :
       (e[1] >= Len(node_list) \/ e[2] >= Len(node_list)) => g[e] = NoEdge
  /\ RankerIdle
  /\ pc = "smp"
  /\ \E L, N, W \in 1 .. MaxSampling :
       /\ L + N + W <= MaxSampling
       /\ smp = [ pc |-> "length", maximumPathLength |-> L, nbSamples |-> N,
                 nbWarmingSteps |-> W,
                 randomScores |-> [ l \in 0 .. L |-> [ n \in 1 .. N |-> Unset ] ],
                 length |-> 1, iterator |-> 0, currentScore |-> 0,
                 logCurrentIsMax |-> TRUE, nbFailures |-> 0,
                 currentSampleSize |-> 0 ]
  /\ sp = Idle /\ pv = Idle /\ sc = Idle /\ spp = Idle

smpFrame == << node_list, g, pc, sp, pv, sc, spp >>

\* Lines 223-229: the next length starts.
SmpStartLength ==
  /\ pc = "smp" /\ smp.pc = "length"
  /\ smp.length <= smp.maximumPathLength
  /\ smp' = [smp EXCEPT !.pc = "iterate", !.currentScore = 0,
                        !.logCurrentIsMax = TRUE, !.nbFailures = 0,
                        !.currentSampleSize = 0, !.iterator = 1]
  /\ UNCHANGED smpFrame /\ UNCHANGED rankerVars

\* Lines 236-298, a pass of while(validPath==0) that ends in a dead end.
SmpDeadEnd ==
  /\ pc = "smp" /\ smp.pc = "iterate"
  /\ smp.iterator <= smp.nbWarmingSteps * smp.nbSamples
  /\ \E w \in Proposals(g, smp.length) : ~w.valid
  /\ smp' = [smp EXCEPT !.nbFailures = IF @ < MaxFailures THEN @ + 1 ELSE @]
  /\ UNCHANGED smpFrame /\ UNCHANGED rankerVars

\* Lines 229-313, the rest of one iteration: a valid walk, the Metropolis
\* test (sure to pass when logCurrentPathProbability is DBL_MAX, else by
\* the draw of runif), and the recording when warmingTime is 0.
SmpIterate ==
  /\ pc = "smp" /\ smp.pc = "iterate"
  /\ smp.iterator <= smp.nbWarmingSteps * smp.nbSamples
  /\ \E w \in Proposals(g, smp.length) : \E accept \in BOOLEAN :
       /\ w.valid
       /\ smp.logCurrentIsMax => accept
       /\ LET score == IF accept THEN w.score ELSE smp.currentScore
              rec   == WarmingTime(smp.iterator, smp.nbWarmingSteps) = 0
          IN  smp' = [smp EXCEPT
                 !.currentScore = score,
                 !.logCurrentIsMax = (rec \/ (smp.logCurrentIsMax /\ ~accept)),
                 !.randomScores = IF rec
                                  THEN WriteScore(@, smp.length,
                                                  smp.currentSampleSize, score)
                                  ELSE @,
                 !.currentSampleSize = IF rec THEN @ + 1 ELSE @,
                 !.iterator = @ + 1]
  /\ UNCHANGED smpFrame /\ UNCHANGED rankerVars

\* The iterations of this length are done: length++.
SmpEndLength ==
  /\ pc = "smp" /\ smp.pc = "iterate"
  /\ smp.iterator > smp.nbWarmingSteps * smp.nbSamples
  /\ smp' = [smp EXCEPT !.pc = "length", !.length = @ + 1]
  /\ UNCHANGED smpFrame /\ UNCHANGED rankerVars

\* computeRandomScores has returned; lines 856-871: every row from 1 on is
\* sorted and SCORES is returned.
SmpSort ==
  /\ pc = "smp" /\ smp.pc = "length"
  /\ smp.length > smp.maximumPathLength
  /\ smp' = [smp EXCEPT !.pc = "returned",
                        !.randomScores =
                           [ l \in DOMAIN @ |-> IF l >= 1 THEN std_sort(@[l]) ELSE @[l] ]]
  /\ UNCHANGED smpFrame /\ UNCHANGED rankerVars

SmpNext ==
  \/ SmpStartLength
  \/ SmpDeadEnd
  \/ SmpIterate
  \/ SmpEndLength
  \/ SmpSort

SmpSpec == SmpInit /\ [][SmpNext]_vars

\* ------------------------------------------------------------------ scope
\* R_NilValue in the place of a path record.
ScNil == [ genes |-> <<>>, compounds |-> <<>>, weights |-> <<>>,
           distance |-> 0, pvalue |-> Ratio(0, 1), set |-> FALSE ]

\* The value that stands for a call of computePvalue that never returns.
Hangs == Ratio(0 - 1, 1)

\* The edge columns a graph was built from, in the order of the list: rows
\* [from, to, weight] with 0-based handles, the rows of twice given twice.
RECURSIVE EdgeListOf(_, _, _)
EdgeListOf(G, pairs, twice) ==
  IF pairs = {} THEN <<>>
  ELSE LET e == CHOOSE x \in pairs : \A y \in pairs :
                  x[1] < y[1] \/ (x[1] = y[1] /\ x[2] <= y[2])
           row == [ from |-> e[1], to |-> e[2], weight |-> G[e] ]
       IN  (IF e \in twice THEN << row, row >> ELSE << row >>)
             \o EdgeListOf(G, pairs \ {e}, twice)

EdgeList(G, twice) == EdgeListOf(G, { e \in DOMAIN G : G[e] # NoEdge }, twice)

\* Lines 805-809: nt counts the rows of the edge list that end in t.
CountTargets(edges) == Len(SelectSeq(edges, LAMBDA e : e.to = t))

\* for (vertices) for (adjacent_vertices): the out-edges of vertex v, then
\* of v+1, ..., each vertex's in the order they were added.
RECURSIVE OutEdgesFrom(_, _)
OutEdgesFrom(edges, v) ==
  IF v >= Len(node_list) THEN <<>>
  ELSE SelectSeq(edges, LAMBDA e : e.from = v) \o OutEdgesFrom(edges, v + 1)

\* Lines 704-706: the vertices *vitr for which the inner test *aitr == t
\* holds, in the order the two loops meet them.
Targets(edges) ==
  LET hits == SelectSeq(OutEdgesFrom(edges, 0), LAMBDA e : e.to = t)
  IN  [ n \in 1 .. Len(hits) |-> hits[n].from ]

\* Lines 327-345.  The sums of count weights drawn from ws.
RECURSIVE Sums(_, _)
Sums(count, ws) ==
  IF count = 0 THEN {0}
  ELSE { x + w : x \in Sums(count - 1, ws), w \in ws }

\* Line 339: floor(runif(0, nbEdges-1)) is a position from 0 to nbEdges-2
\* (runif(0, 0) is 0).
Drawable(weights) ==
  LET nbEdges == Len(weights)
  IN  { weights[n + 1] : n \in IF nbEdges = 1 THEN {0} ELSE 0 .. (nbEdges - 2) }

\* The matrices computeRandomScoresRandomSampling can leave in randomScores:
\* row i (kept at position i+1) holds nbIterations sums of i+1 drawn weights,
\* in the order they were drawn.
RECURSIVE computeRandomScoresRandomSampling(_, _, _)
computeRandomScoresRandomSampling(maxlength, nbIterations, weights) ==
  IF maxlength = 0 THEN { <<>> }
  ELSE { Append(m, row) :
           m \in computeRandomScoresRandomSampling(maxlength - 1, nbIterations, weights),
           row \in [ 1 .. nbIterations -> Sums(maxlength, Drawable(weights)) ] }

\* computePvalue as a function: the passes of PvStep until b = a+1.  With
\* a and b unchanged by a pass the loop never ends.
RECURSIVE PvLoop(_, _, _)
PvLoop(score, samples, st) ==
  LET n == PvStep(score, samples, st)
  IN  IF n.b = n.a + 1 THEN Ratio(n.a, Len(samples))
      ELSE IF n.a = st.a /\ n.b = st.b THEN Hangs
      ELSE PvLoop(score, samples, n)

computePvalue(score, samples) ==
  IF samples[1] >= score THEN Ratio(0, Len(samples))
  ELSE PvLoop(score, samples, [ a |-> 0, b |-> Len(samples) - 1, c |-> 0 ])

\* Faulty variant of noLoop: no candidate is turned down.
noLoopAlways(pathsMatrix, currentIndex, currentLength, vindex, sindex) == TRUE

\* Lines 473-488: noLoop, the walk from (currentIndex, currentLength) down
\* the predecessors to the source, looking for vindex.
RECURSIVE noLoop(_, _, _, _, _)
noLoop(pathsMatrix, currentIndex, currentLength, vindex, sindex) ==
  IF currentIndex = sindex THEN TRUE
  ELSE LET precedingVertexIndex == pathsMatrix[<<currentIndex, currentLength>>]
       IN  IF precedingVertexIndex = vindex THEN FALSE
           ELSE noLoop(pathsMatrix, precedingVertexIndex, currentLength - 1,
                       vindex, sindex)

\* Lines 465-495 for one out-edge e = (u, v) at one length.  (A score is
\* set when it is > -0.5.)
RelaxEdge(G, st, e, length, sindex) ==
  LET rhs == st.scoresMatrix[<<e.from, length>>] + Weight(G, e.from, e.to)
      old == st.scoresMatrix[<<e.to, length + 1>>]
  IN  IF /\ st.scoresMatrix[<<e.from, length>>] >= 0
         /\ noLoop(st.pathsMatrix, e.from, length, e.to, sindex)
         /\ (old > rhs \/ old < 0)
      THEN [ scoresMatrix |-> [st.scoresMatrix EXCEPT ![<<e.to, length + 1>>] = rhs],
             pathsMatrix  |-> [st.pathsMatrix EXCEPT ![<<e.to, length + 1>>] = e.from] ]
      ELSE st

\* Lines 459-498: all out-edges, in order, at one length.
RECURSIVE RelaxAll(_, _, _, _, _)
RelaxAll(G, st, es, length, sindex) ==
  IF es = <<>> THEN st
  ELSE RelaxAll(G, RelaxEdge(G, st, Head(es), length, sindex), Tail(es), length, sindex)

\* Lines 458-499: for (length = 0; length < maximumPathLength; length++).
RECURSIVE Lengths(_, _, _, _, _, _)
Lengths(G, st, edges, length, maximumPathLength, sindex) ==
  IF length >= maximumPathLength THEN st
  ELSE Lengths(G, RelaxAll(G, st, OutEdgesFrom(edges, 0), length, sindex),
               edges, length + 1, maximumPathLength, sindex)

\* Lines 440-456: every score is -1 but that of the source at length 0.
EmptyMatrices(src, maximumPathLength) ==
  LET cells == (0 .. (Len(node_list) - 1)) \X (0 .. maximumPathLength)
  IN  [ scoresMatrix |-> [ x \in cells |-> IF x = <<src, 0>> THEN 0 ELSE Unset ],
        pathsMatrix  |-> [ x \in cells |-> NoVertex ] ]

\* Lines 440-499: the two matrices after the dynamic programme.  Nothing is
\* written to pathsMatrix before the programme runs.
DynamicProgramme(src, G, edges, maximumPathLength) ==
  Lengths(G, EmptyMatrices(src, maximumPathLength), edges, 0, maximumPathLength, src)

\* Lines 546-556: the deque path after the walk from the target down the
\* predecessors, each pushed to the front.
RECURSIVE PathDeque(_, _, _, _)
PathDeque(pathsMatrix, currentIndex, currentLength, sindex) ==
  IF currentIndex = sindex THEN <<>>
  ELSE LET precedingVertexIndex == pathsMatrix[<<currentIndex, currentLength>>]
       IN  Append(PathDeque(pathsMatrix, precedingVertexIndex, currentLength - 1, sindex),
                  precedingVertexIndex)

\* Lines 535-597: what the accepted length leaves in the record.  The first
\* pop_front drops the source; the next front is the first vertex named in
\* genes, and the edges from it on are the ones named and weighed.  With
\* length = 1 the deque is empty after the first pop: front() and
\* pop_front() on it are undefined, and so are the writes at index
\* length-2 = -1; the call is lost, or it goes on to write the target's name
\* to genes[0].
Reconstruct(G, st, dst, length, pvalue, sindex) ==
  LET path  == PathDeque(st.pathsMatrix, dst, length, sindex)
      all   == Tail(path) \o << dst >>
      rec(gs, cs, ws) ==
        [ genes |-> gs, compounds |-> cs, weights |-> ws,
          distance |-> st.scoresMatrix[<<dst, length>>], pvalue |-> pvalue,
          set |-> TRUE ]
  IN  IF Len(path) <= 1
      THEN { [ kind |-> "crash", path |-> ScNil ],
             [ kind |-> "path", path |-> rec(<< node_list[dst + 1] >>, <<>>, <<>>) ] }
      ELSE { [ kind |-> "path",
               path |-> rec([ n \in 1 .. Len(all) |-> node_list[all[n] + 1] ],
                            [ n \in 1 .. (Len(all) - 1) |-> << all[n], all[n + 1] >> ],
                            [ n \in 1 .. (Len(all) - 1) |->
                                Weight(G, all[n], all[n + 1]) ]) ] }

\* Faulty variant of Abandons: no p-value ends the scan.
AbandonsNever(pvalue) == FALSE

\* Line 602: pvalues[length] > 0.1.
Abandons(pvalue) == RatioLess(Ratio(1, 10), pvalue)

\* Lines 527-606: the lengths in turn.  consulted keeps, for each call of
\* computePvalue, the length, the score, the array read and the p-value.
RECURSIVE ScanLengths(_, _, _, _, _, _, _, _)
ScanLengths(G, st, dst, length, randomScores, alpha, consulted, sindex) ==
  IF length >= Len(randomScores)
  THEN { [ kind |-> "nil", path |-> ScNil, consulted |-> consulted ] }
  ELSE IF st.scoresMatrix[<<dst, length>>] > 0
  THEN LET score   == st.scoresMatrix[<<dst, length>>]
           pvalue  == computePvalue(score, randomScores[length + 1])
           read    == Append(consulted,
                             [ length |-> length, score |-> score,
                               samples |-> randomScores[length + 1],
                               pvalue |-> pvalue ])
       IN  IF pvalue = Hangs
           THEN { [ kind |-> "hang", path |-> ScNil, consulted |-> read ] }
           ELSE IF RatioLess(pvalue, alpha)
           THEN { [ kind |-> r.kind, path |-> r.path, consulted |-> read ] :
                    r \in Reconstruct(G, st, dst, length, pvalue, sindex) }
           ELSE IF Abandons(pvalue)
           THEN { [ kind |-> "nil", path |-> ScNil, consulted |-> read ] }
           ELSE ScanLengths(G, st, dst, length + 1, randomScores, alpha, read, sindex)
  ELSE ScanLengths(G, st, dst, length + 1, randomScores, alpha, consulted, sindex)

\* st_shortestPvalue_path(s, t, g, maximumPathLength, nbSamples,
\* randomScores, alpha): the outcomes of a call.  maximumPathLength is the
\* number of rows of randomScores and nbSamples the size of a row.  (The
\* path st_shortest_path returns at line 425 is never read.)
st_shortestPvalue_path(src, dst, G, edges, randomScores, alpha) ==
  ScanLengths(G, DynamicProgramme(src, G, edges, Len(randomScores)), dst, 0,
              randomScores, alpha, <<>>, src)

\* The inputs of scope.  A matrix of sampled scores has one sorted column
\* per length: length 0 scores 0, and the others score 1 up to some row and
\* MaxWeight+1 from there on.
SortedColumns(n) ==
  { [ m \in 1 .. n |-> IF m <= low THEN 1 ELSE MaxWeight + 1 ] : low \in {1, n - 1} }

RECURSIVE SampledPaths(_, _)
SampledPaths(columns, n) ==
  IF columns = 1 THEN { << [ m \in 1 .. n |-> 0 ] >> }
  ELSE { Append(m, col) : m \in SampledPaths(columns - 1, n), col \in SortedColumns(n) }

Alphas == { Ratio(0, 1), Ratio(1, 20), Ratio(1, 2) }

\* Without SAMPLEDPATHS scope is tried on three vertices and the edges
\* s -> a, s -> t, a -> t, at least one of them.
ScSlots == { <<1, 2>>, <<1, 3>>, <<2, 3>> }

ScGraphs ==
  { G \in { BuildGraphOn(ScSlots, ew) : ew \in [ScSlots -> {NoEdge} \cup Weights] } :
      \E e \in DOMAIN G : G[e] # NoEdge }

ScNodeLists ==
  { SmpNodeList,
    [SmpNodeList EXCEPT ![1] = "x"],
    [SmpNodeList EXCEPT ![Len(SmpNodeList)] = "y"] }

\* scope, lines 655-669: the frame of a call.
ScFrame(sampled, al, edges) ==
  [ pc |-> "start", SAMPLEDPATHS |-> sampled, alpha |-> al, edge_list |-> edges,
    randomScores |-> <<>>, nt |-> CountTargets(edges),
    allpaths |-> <<>>, reachedTargets |-> <<>>, vectid |-> 0,
    sampling |-> FALSE, searched |-> <<>>, consulted |-> <<>> ]

ScInit ==
  /\ pc = "scope"
  /\ sp = Idle /\ pv = Idle /\ smp = Idle /\ spp = Idle
  /\ \/ /\ node_list \in NodeLists
        /\ g \in Graphs
        /\ \E m \in SampledPaths(ScColumns, ScSamples) : \E al \in Alphas :
           \E twice \in { {} } \cup { {e} : e \in { x \in { <<1, 4>> } : g[x] # NoEdge } } :
             /\ node_list # NodeList =>
                  (al = Ratio(1, 20) /\ twice = {} /\ \A n \in 2 .. Len(m) : m[n] = m[2])
             /\ sc = ScFrame(m, al, EdgeList(g, twice))
     \/ /\ node_list \in ScNodeLists
        /\ g \in ScGraphs
        /\ sc = ScFrame(<<>>, Ratio(1, 20), EdgeList(g, {}))
  /\ RankerIdle

scFrame == << node_list, g, pc, sp, pv, smp, spp >>

\* Lines 671-681: the rows of SAMPLEDPATHS, or else the sampling.
ScSample ==
  /\ pc = "scope" /\ sc.pc = "start"
  /\ IF sc.SAMPLEDPATHS # <<>>
     THEN sc' = [sc EXCEPT !.pc = "sampled", !.randomScores = sc.SAMPLEDPATHS]
     ELSE \E m \in computeRandomScoresRandomSampling(
                     Len(node_list), InternalSamples,
                     [ n \in 1 .. Len(sc.edge_list) |-> sc.edge_list[n].weight ]) :
            sc' = [sc EXCEPT !.pc = "sampled", !.randomScores = m, !.sampling = TRUE]
  /\ UNCHANGED scFrame /\ UNCHANGED rankerVars

\* Lines 683-686.
ScReturnNil ==
  /\ pc = "scope" /\ sc.pc = "sampled"
  /\ s = NoVertex \/ t = NoVertex
  /\ sc' = [sc EXCEPT !.pc = "nil"]
  /\ UNCHANGED scFrame /\ UNCHANGED rankerVars

\* Lines 688-703: allpaths is a list of nt empty entries.
ScBegin ==
  /\ pc = "scope" /\ sc.pc = "sampled"
  /\ ~(s = NoVertex \/ t = NoVertex)
  /\ sc' = [sc EXCEPT !.pc = "targets", !.vectid = 0, !.reachedTargets = <<>>,
                      !.allpaths = [ n \in 1 .. sc.nt |-> ScNil ]]
  /\ UNCHANGED scFrame /\ UNCHANGED rankerVars

\* Faulty variant of alreadyreached: no name counts as reached.
alreadyreachedNever(last_compound) == FALSE

\* Lines 711-717.
alreadyreached(last_compound) ==
  \E n \in DOMAIN sc.reachedTargets : sc.reachedTargets[n] = last_compound

\* Lines 706-731 for an edge into t from a target that was reached before.
ScSkipReached ==
  /\ pc = "scope" /\ sc.pc = "targets"
  /\ sc.vectid < Len(Targets(sc.edge_list))
  /\ alreadyreached(node_list[Targets(sc.edge_list)[sc.vectid + 1] + 1])
  /\ sc' = [sc EXCEPT !.vectid = @ + 1]
  /\ UNCHANGED scFrame /\ UNCHANGED rankerVars

\* Lines 706-731 for an edge into t from a target not reached yet: the
\* search, and the record put at allpaths[vectid].  (start <= counter < end
\* holds for every vertex.)  searched and consulted keep what was searched
\* and what computePvalue was asked.
ScSearch ==
  /\ pc = "scope" /\ sc.pc = "targets"
  /\ sc.vectid < Len(Targets(sc.edge_list))
  /\ LET v      == Targets(sc.edge_list)[sc.vectid + 1]
         target == node_list[v + 1]
     IN  /\ ~alreadyreached(target)
         /\ \E r \in st_shortestPvalue_path(s, v, g, sc.edge_list,
                                            sc.randomScores, sc.alpha) :
              sc' = [sc EXCEPT
                !.pc = CASE r.kind = "crash" -> "crashed"
                         [] r.kind = "hang"  -> "hung"
                         [] OTHER            -> "targets",
                !.allpaths = IF r.kind = "path"
                             THEN SET_VECTOR_ELT(@, sc.vectid, r.path) ELSE @,
                !.reachedTargets = IF r.kind = "path" THEN Append(@, target) ELSE @,
                !.vectid = IF r.kind \in {"path", "nil"} THEN @ + 1 ELSE @,
                !.searched = Append(@, [ target |-> target,
                                          found  |-> r.kind = "path" ]),
                !.consulted = @ \o [ n \in DOMAIN r.consulted |->
                                       [ target  |-> target,
                                         length  |-> r.consulted[n].length,
                                         score   |-> r.consulted[n].score,
                                         samples |-> r.consulted[n].samples,
                                         pvalue  |-> r.consulted[n].pvalue ] ]]
  /\ UNCHANGED scFrame /\ UNCHANGED rankerVars

\* Lines 736-755: the list out = (paths, scope).
ScReturn ==
  /\ pc = "scope" /\ sc.pc = "targets"
  /\ sc.vectid >= Len(Targets(sc.edge_list))
  /\ sc' = [sc EXCEPT !.pc = "returned"]
  /\ UNCHANGED scFrame /\ UNCHANGED rankerVars

ScNext ==
  \/ ScSample
  \/ ScReturnNil
  \/ ScBegin
  \/ ScSkipReached
  \/ ScSearch
  \/ ScReturn

ScopeSpec == ScInit /\ [][ScNext]_vars

\* ------------------------------------------- st_shortestPvalue_path alone
\* The graphs the function is tried on: any of the edges s -> a, s -> c,
\* a -> b, c -> b, b -> a on the five vertices, and the targets a (one or
\* three edges away from s) and b (two edges away).
SppSlots == { <<1, 2>>, <<1, 4>>, <<2, 3>>, <<4, 3>>, <<3, 2>> }

SppGraphs ==
  { BuildGraphOn(SppSlots, ew) : ew \in [SppSlots -> {NoEdge} \cup Weights] }

SppTargets == { FindVertex("a"), FindVertex("b") }

\* The sampled scores: one sorted column of n scores per length, as many
\* columns as a loopless path can have edges; the column of length 0 is all
\* 0, the others hold 1 in their first one, two or three cells and
\* MaxWeight+1 in the rest.
SppColumns == Len(NodeList) - 1

BandColumns(n) ==
  { [ m \in 1 .. n |-> IF m <= low THEN 1 ELSE MaxWeight + 1 ] : low \in {1, 2, 3} }

RECURSIVE BandedPaths(_, _)
BandedPaths(columns, n) ==
  IF columns = 1 THEN { << [ m \in 1 .. n |-> 0 ] >> }
  ELSE { Append(m, col) : m \in BandedPaths(columns - 1, n), col \in BandColumns(n) }

\* st_shortestPvalue_path(s, t, g, maximumPathLength, nbSamples,
\* randomScores, alpha) after the initialisation of lines 440-456.
SppInit ==
  /\ node_list = NodeList
  /\ g \in SppGraphs
  /\ pc = "spp"
  /\ \E dst \in SppTargets : \E m \in BandedPaths(SppColumns, SppSamples) :
       LET st == EmptyMatrices(s, Len(m))
       IN  spp = [ pc |-> "dp", t |-> dst, edges |-> EdgeList(g, {}),
                   maximumPathLength |-> Len(m), randomScores |-> m,
                   alpha |-> Ratio(1, 20), length |-> 0,
                   scoresMatrix |-> st.scoresMatrix,
                   pathsMatrix |-> st.pathsMatrix,
                   pvalues |-> <<>>, np |-> ScNil ]
  /\ sp = Idle /\ pv = Idle /\ smp = Idle /\ sc = Idle
  /\ RankerIdle

sppFrame == << node_list, g, pc, sp, pv, smp, sc >>

\* Lines 458-499, one pass of for(length): every out-edge of every vertex
\* that has a score at this length.
SppLevel ==
  /\ pc = "spp" /\ spp.pc = "dp"
  /\ spp.length < spp.maximumPathLength
  /\ LET st == RelaxAll(g, [ scoresMatrix |-> spp.scoresMatrix,
                            pathsMatrix  |-> spp.pathsMatrix ],
                        OutEdgesFrom(spp.edges, 0), spp.length, s)
     IN  spp' = [spp EXCEPT !.scoresMatrix = st.scoresMatrix,
                            !.pathsMatrix = st.pathsMatrix,
                            !.length = @ + 1]
  /\ UNCHANGED sppFrame /\ UNCHANGED rankerVars

\* Lines 501-527: the dynamic programme is over, the lengths are gone
\* through again from 0.
SppGenerate ==
  /\ pc = "spp" /\ spp.pc = "dp"
  /\ spp.length >= spp.maximumPathLength
  /\ spp' = [spp EXCEPT !.pc = "scan", !.length = 0]
  /\ UNCHANGED sppFrame /\ UNCHANGED rankerVars

\* Line 529 fails: the target has no score > 0 at this length.
SppNoScore ==
  /\ pc = "spp" /\ spp.pc = "scan"
  /\ spp.length < spp.maximumPathLength
  /\ ~(spp.scoresMatrix[<<spp.t, spp.length>>] > 0)
  /\ spp' = [spp EXCEPT !.length = @ + 1]
  /\ UNCHANGED sppFrame /\ UNCHANGED rankerVars

\* Line 530: pvalues[length].
SppPvalue ==
  computePvalue(spp.scoresMatrix[<<spp.t, spp.length>>],
                spp.randomScores[spp.length + 1])

\* pvalues[length] is kept with its length.
SppKeep(pvalue) ==
  Append(spp.pvalues, [ length |-> spp.length, pvalue |-> pvalue ])

\* Lines 529-599: the p-value is below alpha; the record is built and the
\* loop is left.
SppAccept ==
  /\ pc = "spp" /\ spp.pc = "scan"
  /\ spp.length < spp.maximumPathLength
  /\ spp.scoresMatrix[<<spp.t, spp.length>>] > 0
  /\ SppPvalue # Hangs
  /\ RatioLess(SppPvalue, spp.alpha)
  /\ \E r \in Reconstruct(g, [ scoresMatrix |-> spp.scoresMatrix,
                              pathsMatrix  |-> spp.pathsMatrix ],
                          spp.t, spp.length, SppPvalue, s) :
       spp' = [spp EXCEPT !.pc = IF r.kind = "crash" THEN "crashed" ELSE "returned",
                          !.np = r.path,
                          !.pvalues = SppKeep(SppPvalue)]
  /\ UNCHANGED sppFrame /\ UNCHANGED rankerVars

\* Lines 602-604: the p-value is above 0.1; the loop is left and
\* R_NilValue returned.
SppAbandon ==
  /\ pc = "spp" /\ spp.pc = "scan"
  /\ spp.length < spp.maximumPathLength
  /\ spp.scoresMatrix[<<spp.t, spp.length>>] > 0
  /\ SppPvalue # Hangs
  /\ ~RatioLess(SppPvalue, spp.alpha)
  /\ Abandons(SppPvalue)
  /\ spp' = [spp EXCEPT !.pc = "returned", !.pvalues = SppKeep(SppPvalue)]
  /\ UNCHANGED sppFrame /\ UNCHANGED rankerVars

\* Neither: on to the next length.
SppGoOn ==
  /\ pc = "spp" /\ spp.pc = "scan"
  /\ spp.length < spp.maximumPathLength
  /\ spp.scoresMatrix[<<spp.t, spp.length>>] > 0
  /\ SppPvalue # Hangs
  /\ ~RatioLess(SppPvalue, spp.alpha)
  /\ ~Abandons(SppPvalue)
  /\ spp' = [spp EXCEPT !.length = @ + 1, !.pvalues = SppKeep(SppPvalue)]
  /\ UNCHANGED sppFrame /\ UNCHANGED rankerVars

\* Lines 606-638 with allocated = 0: every length was gone through.
SppReturnNil ==
  /\ pc = "spp" /\ spp.pc = "scan"
  /\ spp.length >= spp.maximumPathLength
  /\ spp' = [spp EXCEPT !.pc = "returned"]
  /\ UNCHANGED sppFrame /\ UNCHANGED rankerVars

SppNext ==
  \/ SppLevel
  \/ SppGenerate
  \/ SppNoScore
  \/ SppAccept
  \/ SppAbandon
  \/ SppGoOn
  \/ SppReturnNil

SppSpec == SppInit /\ [][SppNext]_vars

\* ---------------------------------------------------------------- reference
\* What the claims compare the ranker with: every loopless s-t path of g,
\* found by exhaustive search.
RECURSIVE PathsFrom(_, _)
PathsFrom(v, visited) ==
  IF v = t THEN { <<t>> }
  ELSE UNION { { <<v>> \o r : r \in PathsFrom(u, visited \cup {u}) } :
               u \in { u \in Vertex \ visited : HasEdge(g, v, u) } }

LooplessPaths == PathsFrom(s, {s})

RECURSIVE PathScore(_)
PathScore(seq) ==
  IF Len(seq) < 2 THEN 0
  ELSE Weight(g, seq[1], seq[2]) + PathScore(Tail(seq))

Interior(seq) == SubSeq(seq, 2, Len(seq) - 1)

NoRepeat(seq) == \A m, n \in DOMAIN seq : m # n => seq[m] # seq[n]

\* The same for any graph and any two vertices: the loopless paths of G
\* from v to dst that avoid visited, and the weight of a path in G.
RECURSIVE SimplePaths(_, _, _, _)
SimplePaths(G, v, dst, visited) ==
  IF v = dst THEN { <<dst>> }
  ELSE UNION { { <<v>> \o r : r \in SimplePaths(G, u, dst, visited \cup {u}) } :
               u \in { u \in Vertex \ visited : HasEdge(G, v, u) } }

RECURSIVE ScoreIn(_, _)
ScoreIn(G, seq) ==
  IF Len(seq) < 2 THEN 0
  ELSE Weight(G, seq[1], seq[2]) + ScoreIn(G, Tail(seq))

IsPathIn(G, seq) ==
  \A n \in 1 .. (Len(seq) - 1) : HasEdge(G, seq[n], seq[n + 1])

\* samples is in ascending order.
Ascending(samples) ==
  \A m, n \in DOMAIN samples : m < n => samples[m] <= samples[n]

RECURSIVE SumSeq(_)
SumSeq(seq) == IF seq = <<>> THEN 0 ELSE Head(seq) + SumSeq(Tail(seq))

\* The edge e of g has to go at the deviation position i of p: it touches
\* one of the vertices before position i, or it leaves the vertex at
\* position i for the next vertex of a result path that starts as p does.
RemovedAt(e) ==
  \/ \E n \in 1 .. i : e[1] = p.sequence[n] \/ e[2] = p.sequence[n]
  \/ /\ e[1] = p.sequence[i + 1]
     /\ \E n \in DOMAIN result :
          /\ Len(result[n].sequence) >= i + 2
          /\ SubSeq(result[n].sequence, 1, i + 1) = SubSeq(p.sequence, 1, i + 1)
          /\ result[n].sequence[i + 2] = e[2]

\* The loopless s-t paths that pass the acceptance filter.
Acceptable ==
  { q \in LooplessPaths : Len(q) > mps /\ PathScore(q) > 2 * Weight(g, q[1], q[2]) }

MinOf(a, b) == IF a < b THEN a ELSE b

\* The path most recently popped, as it was appended to result.
Popped == result[Len(result)]

\* The total weights of the walks of exactly n more edges from v that
\* visit no vertex of visited and no vertex twice.
RECURSIVE LooplessWalkScores(_, _, _, _)
LooplessWalkScores(G, v, visited, n) ==
  IF n = 0 THEN {0}
  ELSE UNION { { Weight(G, v, u) + x : x \in LooplessWalkScores(G, u, visited \cup {u}, n - 1) } :
               u \in Adjacent(G, v) \ visited }

\* The vertices from the far end of the predecessor chain of (v, l) to v:
\* the chain is followed for l steps, or up to a cell without predecessor.
RECURSIVE ChainOf(_, _, _)
ChainOf(pathsMatrix, v, l) ==
  IF l = 0 \/ pathsMatrix[<<v, l>>] = NoVertex THEN << v >>
  ELSE Append(ChainOf(pathsMatrix, pathsMatrix[<<v, l>>], l - 1), v)

\* The total weights of the loopless paths of exactly n edges from v to dst
\* that visit no vertex of visited.
RECURSIVE LooplessScoresTo(_, _, _, _, _)
LooplessScoresTo(G, v, dst, visited, n) ==
  IF n = 0 THEN (IF v = dst THEN {0} ELSE {})
  ELSE UNION { { Weight(G, v, u) + x :
                 x \in LooplessScoresTo(G, u, dst, visited \cup {u}, n - 1) } :
               u \in Adjacent(G, v) \ visited }

\* Every loopless path of g that ends in t, from whatever vertex.
PathsToSink == UNION { SimplePaths(g, v, t, {v}) : v \in Vertex }

\* How far a call of pathranker has come: the passes of the main loop made
\* so far, and within a pass the position of the deviation loop. A path
\* has at most Len(NodeList) vertices, so a pass takes less than Stride
\* steps.
Stride == Len(NodeList) + 2

Progress ==
  CASE pc = "start" -> 0
    [] pc = "loop"  -> 1 + k * Stride
    [] pc = "dev"   -> 1 + (k - 1) * Stride + 1 + i
    [] OTHER        -> 1 + (k + 1) * Stride

\* ---------------------------------------------------------------- claims

\* C1: when the call has returned, the emitted paths are exactly the
\* min(K, m) lowest-score ones of the m acceptable loopless s-t paths: each
\* output slot holds a different acceptable path (its inner vertices and its
\* score) and no acceptable path left out scores less than an emitted one.
C1_TopK ==
  pc = "done" =>
    /\ rsize = MinOf(K, Cardinality(Acceptable))
    /\ \E f \in [1 .. rsize -> Acceptable] :
         /\ \A m, n \in 1 .. rsize : m # n => f[m] # f[n]
         /\ \A n \in 1 .. rsize :
              /\ all_paths[n].genes = Interior(f[n])
              /\ all_paths[n].distance = PathScore(f[n])
         /\ \A q \in Acceptable \ { f[n] : n \in 1 .. rsize } :
              \A n \in 1 .. rsize : PathScore(q) >= PathScore(f[n])

\* C2: the scores in the output list are non-decreasing in slot order.
C2_Nondecreasing ==
  \A m, n \in 1 .. rsize :
    m < n => all_paths[m].distance <= all_paths[n].distance

\* C3: no two emitted paths have the same vertex sequence and no vertex
\* sequence is appended to the result list twice.
C3_Unique ==
  /\ \A m, n \in 1 .. rsize : m # n => all_paths[m].genes # all_paths[n].genes
  /\ \A m, n \in DOMAIN result : m # n => result[m].sequence # result[n].sequence

\* C4: every path in the candidate pool, in the result list and in the
\* output visits no vertex more than once.
C4_Loopless ==
  /\ \A n \in DOMAIN candidates : NoRepeat(candidates[n].sequence)
  /\ \A n \in DOMAIN result : NoRepeat(result[n].sequence)
  /\ \A n \in 1 .. rsize : NoRepeat(all_paths[n].genes)

\* C4 witness: the deviation step at position 2 (vertex a) of the popped path
\* s c a t has run in a graph with the edges a -> b, b -> c and c -> t: the
\* only way on from a leads back into the prefix vertex c.
C4_Witness ==
  /\ pc = "dev" /\ i = 3
  /\ p.sequence = <<0, 3, 1, 4>>
  /\ HasEdge(g, 1, 2) /\ HasEdge(g, 2, 3) /\ HasEdge(g, 3, 4)
  /\ g_copy = DeviationGraph(2)

\* C5: with K above the number m of acceptable loopless s-t paths the call
\* ends having emitted all m of them and nothing else; the other slots are
\* empty.
C5_AllWhenKLarge ==
  (pc = "done" /\ K > Cardinality(Acceptable)) =>
    /\ rsize = Cardinality(Acceptable)
    /\ \A q \in Acceptable : \E n \in 1 .. rsize :
         all_paths[n].genes = Interior(q) /\ all_paths[n].distance = PathScore(q)
    /\ \A n \in (rsize + 1) .. K : all_paths[n] = NULL

\* C6 scenario: the only s-t path is s a t, both weights 1, K = 5 and
\* minPathSize = 0, and the call has returned.
C6_Scenario ==
  /\ pc = "done"
  /\ K = 5 /\ mps = 0
  /\ LooplessPaths = { <<0, 1, 4>> }
  /\ Weight(g, 0, 1) = 1 /\ Weight(g, 1, 4) = 1

\* C6 as claimed: in the scenario exactly one path is emitted and its score
\* is 2.
C6_OneEmitted ==
  C6_Scenario => (rsize = 1 /\ all_paths[1].set /\ all_paths[1].distance = 2)

\* C6 as amended: in the scenario the one path s a t is popped into the
\* result list with score 2 and is not emitted (2 > 2*1 fails); every output
\* slot stays empty.
C6_OnePoppedNoneEmitted ==
  C6_Scenario =>
    /\ rsize = 0
    /\ \A n \in 1 .. K : all_paths[n] = NULL
    /\ result = << [ sequence |-> <<0, 1, 4>>, score |-> 2, deviation |-> 0 ] >>

\* C7: on a graph whose s-t paths are the two disjoint paths s a t and s c t,
\* both of score 3, a call with K = 2 (and minPathSize 0) emits both.
C7_BothEmitted ==
  ( /\ pc = "done"
    /\ K = 2 /\ mps = 0
    /\ LooplessPaths = { <<0, 1, 4>>, <<0, 3, 4>> }
    /\ PathScore(<<0, 1, 4>>) = 3 /\ PathScore(<<0, 3, 4>>) = 3 )
  => ( rsize = 2 /\ { all_paths[n].genes : n \in 1 .. rsize } = { <<1>>, <<3>> } )

\* C8 as claimed: a step that emits (rsize changes) popped a candidate whose
\* vertex count without source and sink exceeds minPathSize and whose score
\* exceeds twice the weight of its first edge.
C8_InnerCountFilter ==
  [][ rsize' # rsize =>
        /\ Len(Popped'.sequence) - 2 > mps
        /\ Popped'.score > 2 * Weight(g, Popped'.sequence[1], Popped'.sequence[2]) ]_vars

\* C8 as amended: a step that emits popped a candidate whose whole vertex
\* sequence (both end vertices counted) is longer than minPathSize and whose
\* score exceeds twice the weight of its first edge.
C8_WholeCountFilter ==
  [][ rsize' # rsize =>
        /\ Len(Popped'.sequence) > mps
        /\ Popped'.score > 2 * Weight(g, Popped'.sequence[1], Popped'.sequence[2]) ]_vars

\* C8 witness: a path was emitted after a candidate with a score above twice
\* its first edge had been turned down for its length.
C8_Witness ==
  /\ rsize >= 1
  /\ \E n \in DOMAIN result :
       /\ result[n].sequence # <<>>
       /\ Len(result[n].sequence) <= mps
       /\ result[n].score >
            2 * Weight(g, result[n].sequence[1], result[n].sequence[2])

\* C9 as claimed: the loop pops at most K candidates.
C9_AtMostKPops == k <= K

\* C9 as amended: every pop happens while fewer than K paths are emitted and
\* adds one to k; it adds one to rsize exactly when the popped candidate
\* passes the filter, so a candidate that fails it uses up none of K.
C9_BudgetCountsEmitted ==
  [][ k' # k =>
        /\ rsize < K
        /\ k' = k + 1
        /\ rsize' = IF /\ Len(Popped'.sequence) > mps
                       /\ Popped'.score >
                            2 * Weight(g, Popped'.sequence[1], Popped'.sequence[2])
                    THEN rsize + 1 ELSE rsize ]_vars

\* C9 witness: more than K candidates were popped.
C9_Witness == k > K /\ rsize < k

\* C10: rsize never exceeds K, the output list keeps its K slots, only the
\* slots below rsize are set, and a step that writes the list writes slot
\* rsize with rsize < K.
C10_OutputInRange ==
  /\ [](/\ rsize <= K
        /\ DOMAIN all_paths = 1 .. K
        /\ \A n \in 1 .. K : all_paths[n].set => n <= rsize)
  /\ [][ all_paths' # all_paths =>
           /\ rsize < K
           /\ \A n \in 1 .. K : n # rsize + 1 => all_paths'[n] = all_paths[n] ]_vars

\* C10 witness: a call with K >= 2 has filled all K slots.
C10_Witness ==
  /\ K >= 2 /\ rsize = K
  /\ \A n \in 1 .. K : all_paths[n].set

\* C13: a call st_shortest_path(s, t, g) with s # t returns deviation 0
\* and, when g has a path from s to t, the least weight of such a path as
\* score with a sequence that starts at s, ends at t, follows edges of g and
\* weighs score; when g has none, the score DBL_MAX and the empty sequence.
C13_ShortestPath ==
  sp.pc = "returned" =>
    LET all == SimplePaths(g, sp.s, sp.t, {sp.s})
    IN  /\ sp.p.deviation = 0
        /\ IF all = {}
           THEN sp.p.score = DBL_MAX /\ sp.p.sequence = <<>>
           ELSE /\ \A q \in all : sp.p.score <= ScoreIn(g, q)
                /\ \E q \in all : sp.p.score = ScoreIn(g, q)
                /\ sp.p.sequence # <<>>
                /\ sp.p.sequence[1] = sp.s
                /\ sp.p.sequence[Len(sp.p.sequence)] = sp.t
                /\ IsPathIn(g, sp.p.sequence)
                /\ ScoreIn(g, sp.p.sequence) = sp.p.score

\* C13 witness: the call returned the three-edge path s c a t although the
\* graph has the edges s -> a and a -> t: the path with fewer edges weighs
\* more.
C13_Witness ==
  /\ sp.pc = "returned"
  /\ sp.s = 0 /\ sp.t = 4
  /\ sp.p.sequence = <<0, 3, 1, 4>>
  /\ HasEdge(g, 0, 1) /\ HasEdge(g, 1, 4)

\* C14: on an ascending array of N >= 1 samples a call that returns gives
\* 0 when the smallest sample is not below the score, and otherwise a/N with
\* a the 0-based position of the largest sample below the score (the next
\* sample, if there is one, is not below it) - also when every sample is
\* below the score.
C14_RankOfLargestBelow ==
  (pv.pc = "returned" /\ Ascending(pv.randomScores[pv.length + 1])) =>
    LET samples == pv.randomScores[pv.length + 1]
        N       == pv.nbSamples
        ret     == pv.pvalues[Len(pv.pvalues)].pvalue
    IN  IF samples[1] >= pv.score
        THEN ret.num = 0
        ELSE \E a \in 0 .. (N - 1) :
               /\ ret = Ratio(a, N)
               /\ samples[a + 1] < pv.score
               /\ (a = N - 1 \/ samples[a + 2] >= pv.score)

\* C15 as claimed: on an ascending array, of two scores x < y the larger
\* one gets a p-value that is not above the smaller one's.
C15_NonIncreasing ==
  Ascending(pv.randomScores[pv.length + 1]) =>
    \A m, n \in DOMAIN pv.pvalues :
      pv.pvalues[m].score < pv.pvalues[n].score =>
        ~RatioLess(pv.pvalues[m].pvalue, pv.pvalues[n].pvalue)

\* C15 as amended: on an ascending array, of two scores x < y for which
\* the call returns the larger one gets a p-value that is not below the
\* smaller one's.
C15_NonDecreasing ==
  Ascending(pv.randomScores[pv.length + 1]) =>
    \A m, n \in DOMAIN pv.pvalues :
      pv.pvalues[m].score < pv.pvalues[n].score =>
        ~RatioLess(pv.pvalues[n].pvalue, pv.pvalues[m].pvalue)

\* C15 witness: two calls on an ascending array returned, and the larger
\* score got the larger p-value.
C15_Witness ==
  /\ Ascending(pv.randomScores[pv.length + 1])
  /\ Len(pv.pvalues) = 2
  /\ pv.pvalues[1].score < pv.pvalues[2].score
  /\ RatioLess(pv.pvalues[1].pvalue, pv.pvalues[2].pvalue)

\* C12: the entries of the weights array of every path pathranker has
\* emitted, and of every path scope has put in allpaths, add up to the
\* distance reported with it.
C12_WeightsSumToDistance ==
  /\ \A n \in 1 .. rsize :
       all_paths[n].set => SumSeq(all_paths[n].weights) = all_paths[n].distance
  /\ pc = "scope" =>
       \A n \in DOMAIN sc.allpaths :
         sc.allpaths[n].set =>
           SumSeq(sc.allpaths[n].weights) = sc.allpaths[n].distance

\* C19: no step changes g; a deviation step that searches leaves in g_copy
\* the graph g less exactly the edges that have to go at its own position,
\* every other edge with the weight it has in g; no other step changes
\* g_copy.
C19_CopyFromOriginal ==
  [][ /\ g' = g
      /\ IF pc = "dev" /\ i' = i + 1 /\ i >= p.deviation
         THEN /\ DOMAIN g_copy' = DOMAIN g
              /\ \A e \in DOMAIN g :
                   g_copy'[e] = IF RemovedAt(e) THEN NoEdge ELSE g[e]
         ELSE g_copy' = g_copy ]_vars

\* C19 witness: s a t was popped first and its position 1 took the edge
\* a -> t out of the copy; now position 1 of the second popped path s c t
\* has been searched and the copy has a -> t again.
C19_Witness ==
  /\ pc = "dev" /\ i = 2
  /\ Len(result) = 2
  /\ result[1].sequence = <<0, 1, 4>>
  /\ p.sequence = <<0, 3, 4>>
  /\ g_copy # g
  /\ HasEdge(g_copy, 1, 4)

\* C20: the scores in the result list are strictly ascending in pop order.
C20_StrictlyAscending ==
  \A n \in 1 .. (Len(result) - 1) : result[n].score < result[n + 1].score

\* C16: while a length is being sampled the number of recorded scores is
\* the number of completed blocks of nbWarmingSteps iterations, and it is
\* below nbSamples whenever another iteration runs; at the return every row
\* from 1 to maximumPathLength holds exactly nbSamples recorded scores in
\* ascending order.
C16_SamplesPerLength ==
  /\ smp.pc = "iterate" =>
       /\ smp.currentSampleSize = (smp.iterator - 1) \div smp.nbWarmingSteps
       /\ smp.iterator <= smp.nbWarmingSteps * smp.nbSamples =>
            smp.currentSampleSize < smp.nbSamples
  /\ smp.pc = "returned" =>
       \A l \in 1 .. smp.maximumPathLength :
         /\ DOMAIN smp.randomScores[l] = 1 .. smp.nbSamples
         /\ \A n \in 1 .. smp.nbSamples : smp.randomScores[l][n] # Unset
         /\ Ascending(smp.randomScores[l])

\* C16 witness: a call with two samples and two warming steps has returned
\* after four iterations, and the two scores recorded for length 1 differ.
C16_Witness ==
  /\ smp.pc = "returned"
  /\ smp.nbSamples = 2 /\ smp.nbWarmingSteps = 2
  /\ smp.randomScores[1][1] < smp.randomScores[1][2]

\* C11: when pathranker or scope has returned NULL for want of a vertex
\* named "s" or "t", nothing was searched and nothing was sampled before:
\* the ranker's pool and result are empty and no path was computed, and
\* scope has neither run its sampling nor searched a target.
C11_NothingBeforeNil ==
  /\ pc = "nil" => (candidates = <<>> /\ result = <<>> /\ p = EmptyPath)
  /\ (pc = "scope" /\ sc.pc = "nil") => (~sc.sampling /\ sc.searched = <<>>)

\* C17: when scope was given no sampled scores, every array computePvalue
\* has read was in ascending order.
C17_InternalSamplesSorted ==
  (pc = "scope" /\ sc.SAMPLEDPATHS = <<>>) =>
     \A n \in DOMAIN sc.consulted : Ascending(sc.consulted[n].samples)

\* C18: in what scope has put together, a name is listed exactly when a
\* search for it got a p-value below alpha, and then once; the entries of
\* allpaths that are set are as many as the names, the n-th of them ends
\* in the n-th name and has a p-value below alpha; and a name that is
\* listed was searched once.
C18_ScopeOutput ==
  (pc = "scope" /\ sc.pc \in {"targets", "returned"}) =>
    LET names == sc.reachedTargets
        filled == SelectSeq(sc.allpaths, LAMBDA x : x.set)
    IN  /\ \A m, n \in DOMAIN names : m # n => names[m] # names[n]
        /\ \A v \in 1 .. Len(node_list) :
             (\E n \in DOMAIN names : names[n] = node_list[v])
               <=> (\E n \in DOMAIN sc.consulted :
                      /\ sc.consulted[n].target = node_list[v]
                      /\ RatioLess(sc.consulted[n].pvalue, sc.alpha))
        /\ Len(filled) = Len(names)
        /\ \A n \in DOMAIN filled :
             /\ filled[n].genes[Len(filled[n].genes)] = names[n]
             /\ RatioLess(filled[n].pvalue, sc.alpha)
        /\ \A n \in DOMAIN names :
             Cardinality({ m \in DOMAIN sc.searched :
                             sc.searched[m].target = names[n] }) = 1

\* C18 witness: scope has returned on a list with three edges into t, two
\* of them from a: c was searched and is out of scope, a was reached by
\* two edges and is listed once, and its second edge was passed over.
C18_Witness ==
  /\ pc = "scope" /\ sc.pc = "returned"
  /\ sc.nt = 3
  /\ sc.reachedTargets = << "a" >>
  /\ Len(sc.searched) = 2
  /\ sc.allpaths[1].set /\ Len(sc.allpaths[1].genes) = 2
  /\ ~sc.allpaths[2].set /\ ~sc.allpaths[3].set

\* C21: every path in the pool and in the result list that has a finite
\* score starts at s and ends at t, and while the deviations of the popped
\* path p are searched, p.sequence is the sequence that was appended to the
\* result list.
C21_SourceToSink ==
  /\ \A n \in DOMAIN candidates :
       candidates[n].score # DBL_MAX =>
         /\ candidates[n].sequence[1] = s
         /\ candidates[n].sequence[Len(candidates[n].sequence)] = t
  /\ \A n \in DOMAIN result :
       result[n].score # DBL_MAX =>
         /\ result[n].sequence[1] = s
         /\ result[n].sequence[Len(result[n].sequence)] = t
  /\ pc = "dev" => p.sequence = Popped.sequence

\* C22: the lengths st_shortestPvalue_path has asked a p-value for are
\* exactly the lengths, in increasing order, at which the target has a score
\* above 0, up to the length the scan has come to or stopped at; the
\* p-value of every one but the last is neither below alpha nor above 0.1;
\* and the call ends with a path accepted at length L exactly when the
\* p-value of L is below alpha and that of every smaller length with a score
\* is neither below alpha nor above 0.1.
C22_ScanStopsAtFirst ==
  (pc = "spp" /\ spp.pc \in {"scan", "returned", "crashed"}) =>
    LET pvs       == spp.pvalues
        lens      == 0 .. (spp.maximumPathLength - 1)
        scored(l) == spp.scoresMatrix[<<spp.t, l>>] > 0
        P(l)      == computePvalue(spp.scoresMatrix[<<spp.t, l>>], spp.randomScores[l + 1])
        stops(x)  == RatioLess(x, spp.alpha) \/ RatioLess(Ratio(1, 10), x)
        upto      == IF spp.pc = "scan" THEN spp.length
                     ELSE IF pvs # <<>> /\ stops(pvs[Len(pvs)].pvalue)
                     THEN pvs[Len(pvs)].length + 1
                     ELSE spp.maximumPathLength
        accepted  == spp.pc = "crashed" \/ spp.np.set
    IN  /\ \A m, n \in DOMAIN pvs : m < n => pvs[m].length < pvs[n].length
        /\ \A n \in DOMAIN pvs : pvs[n].pvalue = P(pvs[n].length)
        /\ \A n \in DOMAIN pvs : n < Len(pvs) => ~stops(pvs[n].pvalue)
        /\ { pvs[n].length : n \in DOMAIN pvs } = { l \in lens : scored(l) /\ l < upto }
        /\ spp.pc # "scan" =>
             (accepted <=>
                \E L \in lens :
                  /\ scored(L) /\ RatioLess(P(L), spp.alpha)
                  /\ \A l \in lens : (l < L /\ scored(l)) => ~stops(P(l)))
        /\ spp.np.set => spp.np.distance = spp.scoresMatrix[<<spp.t, pvs[Len(pvs)].length>>]

\* C22 witness: a path was accepted at the second length that has a score,
\* after a first one whose p-value of 0.1 neither accepts nor abandons.
C22_Witness ==
  /\ pc = "spp" /\ spp.pc = "returned" /\ spp.np.set
  /\ Len(spp.pvalues) = 2
  /\ spp.pvalues[1].pvalue = Ratio(1, SppSamples)
  /\ RatioLess(spp.pvalues[2].pvalue, spp.alpha)

\* C23: every score the sampler has recorded in the row of length L is the
\* total weight of a walk of exactly L edges over L+1 different vertices of
\* the graph.
C23_ExactLooplessWalks ==
  pc = "smp" =>
    \A L \in DOMAIN smp.randomScores : \A n \in DOMAIN smp.randomScores[L] :
      (L >= 1 /\ smp.randomScores[L][n] # Unset) =>
        smp.randomScores[L][n] \in
          UNION { LooplessWalkScores(g, v, {v}, L) : v \in 0 .. (Len(node_list) - 1) }

\* C24: the sampling comes to an end under fair draws: whenever an
\* iteration is to be made, the building of a path can give a valid one, so
\* that the retry loop while(validPath==0) is left.
C24_RetryLoopCanEnd ==
  (pc = "smp" /\ smp.pc = "iterate"
     /\ smp.iterator <= smp.nbWarmingSteps * smp.nbSamples) =>
    \E w \in Proposals(g, smp.length) : w.valid

\* C25: when scope has sampled the scores itself, the array computePvalue
\* has read for a path of L edges holds sums of L weights of the edge list,
\* and a draw can give the weight at any position of the list.
C25_FallbackSums ==
  (pc = "scope" /\ sc.sampling) =>
    LET weights == [ n \in 1 .. Len(sc.edge_list) |-> sc.edge_list[n].weight ]
        all     == { weights[n] : n \in DOMAIN weights }
    IN  /\ \A n \in DOMAIN sc.consulted :
             \A m \in DOMAIN sc.consulted[n].samples :
               sc.consulted[n].samples[m] \in Sums(sc.consulted[n].length, all)
        /\ Drawable(weights) = all

\* C26: in a call of st_shortestPvalue_path, every cell (v, l) with a score
\* has a predecessor chain of l edges of the graph from the source to v
\* that visits no vertex twice and weighs the score of the cell; and a pass
\* of the dynamic programme at a length leaves every cell of that length
\* and of the lengths below as it is, as does every step after the
\* programme.
C26_Chains ==
  /\ [](pc = "spp" =>
          \A x \in DOMAIN spp.scoresMatrix :
            spp.scoresMatrix[x] >= 0 =>
              LET chain == ChainOf(spp.pathsMatrix, x[1], x[2])
              IN  /\ Len(chain) = x[2] + 1
                  /\ chain[1] = s
                  /\ NoRepeat(chain)
                  /\ IsPathIn(g, chain)
                  /\ ScoreIn(g, chain) = spp.scoresMatrix[x])
  /\ [][pc = "spp" =>
          \A x \in DOMAIN spp.scoresMatrix :
            (spp.pc # "dp" \/ x[2] <= spp.length) =>
              /\ spp'.scoresMatrix[x] = spp.scoresMatrix[x]
              /\ spp'.pathsMatrix[x] = spp.pathsMatrix[x]]_vars

\* C26 witness: the programme is over; b, two edges from s, was reached by
\* way of a and then, for less, by way of c, and a has a score at length 1
\* and, by way of c and b, at length 3.
C26_Witness ==
  /\ pc = "spp" /\ spp.pc = "scan"
  /\ HasEdge(g, 0, 1) /\ HasEdge(g, 1, 2)
  /\ spp.pathsMatrix[<<2, 2>>] = 3
  /\ spp.scoresMatrix[<<1, 1>>] >= 0
  /\ spp.scoresMatrix[<<1, 3>>] >= 0

\* C27: every call of pathranker comes to its end. Each step takes the
\* call further, the main loop makes no more passes than g has loopless
\* paths into t, and the deviation loop never stands at a position its path
\* does not have (everywhere else the conditions of the code cover every
\* case, so the call has a next step until it has ended).
C27_Terminates ==
  /\ [](k <= Cardinality(PathsToSink))
  /\ [](pc = "dev" /\ DevLoopGuard => Len(p.sequence) >= i + 2)
  /\ [][Progress' > Progress]_vars

\* C27 witness: the loop was left with an empty pool after three pops, none
\* of which had passed the acceptance filter.
C27_Witness ==
  /\ pc = "done" /\ candidates = <<>>
  /\ k = 3 /\ rsize = 0 /\ K >= 1

\* C28: while the binary search of computePvalue is in its loop, a and b
\* are positions of the array with a < b, and the pass about to be made
\* either ends the search or brings a and b closer together - for every
\* number of samples from 1 on and every score.
C28_SearchEnds ==
  (pc = "pv" /\ pv.pc = "loop") =>
    LET n == PvStep(pv.score, pv.randomScores[pv.length + 1], pv)
    IN  /\ 0 <= pv.a /\ pv.a < pv.b /\ pv.b <= pv.nbSamples - 1
        /\ (n.b = n.a + 1 \/ n.b - n.a < pv.b - pv.a)

\* C29: when st_shortestPvalue_path has accepted a length L >= 1, the call
\* has gone on to return a record with L vertex labels, L-1 edge labels and
\* L-1 weights, and the deque of the reconstruction held a vertex after the
\* source when its front was read and popped.
C29_ReconstructionInBounds ==
  ( /\ pc = "spp" /\ spp.pc \in {"returned", "crashed"}
    /\ spp.pvalues # <<>>
    /\ RatioLess(spp.pvalues[Len(spp.pvalues)].pvalue, spp.alpha) ) =>
    /\ spp.length >= 1
    /\ spp.pc = "returned"
    /\ Len(spp.np.genes) = spp.length
    /\ Len(spp.np.compounds) = spp.length - 1
    /\ Len(spp.np.weights) = spp.length - 1
    /\ Len(PathDeque(spp.pathsMatrix, spp.t, spp.length, s)) >= 2

\* C30: once the dynamic programme of st_shortestPvalue_path is over, the
\* score of every vertex v at every length l < maximumPathLength is the
\* least total weight of the loopless paths of exactly l edges from the
\* source to v, and it is unset exactly when there is no such path.
C30_LeastLooplessWeight ==
  (pc = "spp" /\ spp.pc = "scan") =>
    \A v \in 0 .. (Len(node_list) - 1) :
      \A l \in 0 .. (spp.maximumPathLength - 1) :
        LET scores == LooplessScoresTo(g, s, v, {s}, l)
            cell   == spp.scoresMatrix[<<v, l>>]
        IN  IF scores = {}
            THEN cell = Unset
            ELSE cell \in scores /\ \A x \in scores : cell <= x

====
